---------------------------- MODULE Spec2Model ----------------------------
(* A model of the /detect handler of src/ai_generation_detector.py:        *)
(* detect_deepfake and upload_asset, one action per step of the handler.   *)
(*                                                                         *)
(* Numbers.  Thresholds and scores are floats in the code; the handler     *)
(* only compares them, so they are modelled as integers in units of        *)
(* 1/Scale (Scale stands for 1.0).  Strings that the code takes apart      *)
(* (file names) are sequences of one-character strings.  The rounded       *)
(* display fields (confidence, confidence_score, sources_message) are not  *)
(* part of the model.                                                      *)
EXTENDS Integers, Sequences, FiniteSets, TLC

VARIABLES
    pc,         \* position of the handler
    threshold,  \* query parameter threshold (line 74), in units of 1/Scale
    filename,   \* file.filename, a sequence of characters
    size,       \* number of bytes of the upload
    apiKeySet,  \* os.getenv('NVIDIA_API_KEY') is non-empty
    ext,        \* local ext (line 88)
    mime,       \* local mime_type (line 104)
    b64len,     \* len(image_b64) (line 109)
    tmpExists,  \* the NamedTemporaryFile of this call exists on disk
    strategy,   \* which branch of line 124 was taken: "none", "inline", "asset"
    assetId,    \* local asset_id (line 136)
    payload,    \* local payload (lines 126, 137)
    headers,    \* local headers (lines 129, 140)
    calls,      \* the vendor requests issued by this call, oldest first, each
                \* with the MIME type it carried and with what came back: net,
                \* status, and good (the body held what the code reads from it)
    resp,       \* local result (line 152)
    score,      \* local ai_generated_score (line 157)
    exc,        \* the exception in flight
    cause,      \* where the failure of this call arose (ERROR taxonomy)
    ret,        \* the value of the return statement (lines 174-184)
    reply,      \* what reaches the caller of the handler
    prev        \* cause and reply of the previous call of the server

vars == <<pc, threshold, filename, size, apiKeySet, ext, mime, b64len,
          tmpExists, strategy, assetId, payload, headers, calls, resp,
          score, exc, cause, ret, reply, prev>>

--------------------------------------------------------------------------
(* Bounds of the model *)

\* Thresholds and scores are multiples of 1/Scale; Scale is 1.0.
Scale == 3

\* Upload sizes straddle the inline limit by SizeDelta bytes on each side.
SizeDelta == 4

\* The largest number of entries of possible_sources, and the largest weight.
MaxSources == 4

MaxWeight == 3

--------------------------------------------------------------------------
(* Program constants *)

\* line 124: if len(image_b64) < 180_000
INLINE_LIMIT == 180000

\* line 165: [:3]
TOP_N == 3

INVOKE_URL == "https://ai.api.nvidia.com/v1/cv/hive/ai-generated-image-detection"

ASSETS_URL == "https://api.nvcf.nvidia.com/v2/nvcf/assets"

\* the uploadUrl of a reservation: chosen by the vendor
PRESIGNED_URL == "uploadUrl"

THRESHOLD_DETAIL == "Threshold must be between 0 and 1"

FILETYPE_DETAIL == "Invalid file type. Only jpg, jpeg, and png are supported."

APIKEY_DETAIL == "Server configuration error: NVIDIA API key not set"

FORMAT_DETAIL == "Invalid response format from NVIDIA API"

--------------------------------------------------------------------------
(* Strings *)

DOT == "."

SEP == "/"

\* the extension compared as it was typed
LowerForgotten(s) == s

\* str.lower() on the characters the model uses
Lower(s) ==
    [i \in 1..Len(s) |->
        CASE s[i] = "J" -> "j"
          [] s[i] = "P" -> "p"
          [] s[i] = "G" -> "g"
          [] s[i] = "E" -> "e"
          [] s[i] = "N" -> "n"
          [] s[i] = "A" -> "a"
          [] s[i] = "I" -> "i"
          [] s[i] = "F" -> "f"
          [] s[i] = "B" -> "b"
          [] s[i] = "M" -> "m"
          [] OTHER -> s[i]]

\* str.rfind(c): the last index of c in s, 0 when there is none
RFind(s, c) ==
    IF \E i \in 1..Len(s) : s[i] = c
    THEN CHOOSE i \in 1..Len(s) : s[i] = c /\ \A j \in (i+1)..Len(s) : s[j] # c
    ELSE 0

\* os.path.splitext(p)[1]: the text from the last dot of the last path
\* component, empty when that component has no dot or only leading dots
SplitExt(p) ==
    LET sepIndex == RFind(p, SEP)
        dotIndex == RFind(p, DOT)
    IN  IF dotIndex > sepIndex
           /\ \E k \in (sepIndex + 1)..(dotIndex - 1) : p[k] # DOT
        THEN SubSeq(p, dotIndex, Len(p))
        ELSE <<>>

EXT_JPG == <<".", "j", "p", "g">>

EXT_JPEG == <<".", "j", "p", "e", "g">>

EXT_PNG == <<".", "p", "n", "g">>

\* line 89: the allow-list
ALLOWED_EXT == {EXT_JPG, EXT_JPEG, EXT_PNG}

\* line 104
MimeType(e) == IF e \in {EXT_JPG, EXT_JPEG} THEN "image/jpeg" ELSE "image/png"

\* base64.b64encode: 4 characters for every 3 bytes, the last group padded
B64Len(n) == 4 * ((n + 2) \div 3)

--------------------------------------------------------------------------
(* Exceptions and replies *)

NoDetail == [code |-> 0, text |-> ""]

NoExc == [type |-> "none", status |-> 0, detail |-> ""]

\* HTTPException(status_code=s, detail=d)
HTTPException(s, d) == [type |-> "HTTPException", status |-> s, detail |-> d]

\* requests.exceptions.HTTPError raised by raise_for_status for a URL
HTTPError(s, url) == [type |-> "HTTPError", status |-> s, detail |-> url]

\* requests.exceptions.ConnectionError / Timeout for a URL
ConnectionError(url) == [type |-> "ConnectionError", status |-> 0, detail |-> url]

\* KeyError(key) / JSONDecodeError / OSError
OtherError(t, what) == [type |-> t, status |-> 0, detail |-> what]

\* str(e): "<status>: <detail>" for an HTTPException (Starlette's __str__),
\* "<status> ... Error: ... for url: <url>" for an HTTPError, the message
\* otherwise.  The code and the text are the parts of the string; the
\* string is free text, the caller gets no other field than it and the status.
Str(e) == [code |-> e.status, text |-> e.detail]

NoRet == [is_ai_generated |-> FALSE, word |-> "", top_sources |-> <<>>,
          threshold |-> 0, filename |-> <<>>]

NoReply == [kind |-> "none", status |-> 0, detail |-> NoDetail, body |-> NoRet]

NoPayload == [scheme |-> "none", mime |-> "", data |-> 0]

NoHeaders == [assetRef |-> "", auth |-> FALSE]

NoEntry == [hasScore |-> FALSE, score |-> 0, hasSources |-> FALSE, sources |-> <<>>]

NoResult == [hasData |-> FALSE, data |-> <<>>]

NoPrev == [cause |-> "none", kind |-> "none", status |-> 0]

--------------------------------------------------------------------------
(* Result Normalizer: lines 155-189 *)

\* line 155: 'data' in result and len(result['data']) > 0
HasContainer(result) == result.hasData /\ Len(result.data) > 0

\* a default of 1 in place of 0
GetScoreDefaultOne(d) == IF d.hasScore THEN d.score ELSE Scale

\* line 157: detection_data.get('is_ai_generated', 0)
GetScore(d) == IF d.hasScore THEN d.score ELSE 0

\* line 158: detection_data.get('possible_sources', {}).items()
GetSources(d) == IF d.hasSources THEN d.sources ELSE <<>>

\* a sort that puts x ahead of the entries of its own weight
InsertDescStrict(x, s) ==
    LET ahead == {i \in 1..Len(s) : s[i].weight > x.weight}
        k == IF ahead = {} THEN 0
             ELSE CHOOSE i \in ahead : \A j \in ahead : j <= i
    IN  SubSeq(s, 1, k) \o <<x>> \o SubSeq(s, k + 1, Len(s))

\* One step of a stable descending sort: x goes behind every entry whose
\* weight is at least its own.
InsertDesc(x, s) ==
    LET ahead == {i \in 1..Len(s) : s[i].weight >= x.weight}
        k == IF ahead = {} THEN 0
             ELSE CHOOSE i \in ahead : \A j \in ahead : j <= i
    IN  SubSeq(s, 1, k) \o <<x>> \o SubSeq(s, k + 1, Len(s))

RECURSIVE SortFrom(_, _, _)
SortFrom(s, i, acc) ==
    IF i > Len(s) THEN acc ELSE SortFrom(s, i + 1, InsertDesc(s[i], acc))

\* lines 161-165: sorted(items, key=lambda x: x[1], reverse=True); Python's
\* sort is stable, also with reverse=True
SortedDesc(s) == SortFrom(s, 1, <<>>)

\* line 165: [:3]
TopSources(s) ==
    LET sorted == SortedDesc(s)
    IN  SubSeq(sorted, 1, IF Len(sorted) < TOP_N THEN Len(sorted) ELSE TOP_N)

\* >= in place of >
VerdictGe(s, thr) == s >= thr

\* line 176: ai_generated_score > threshold
Verdict(s, thr) == s > thr

\* line 181: 'likely' if ai_generated_score > threshold else 'unlikely'
LikelyWord(s, thr) == IF s > thr THEN "likely" ELSE "unlikely"

\* a normalizer that answers a missing container with a default verdict
NormalizeOutcomeDefault(result, thr, fname) ==
    LET d == IF HasContainer(result) THEN result.data[1] ELSE NoEntry
        s == GetScore(d)
    IN  [raised |-> FALSE,
         score |-> s,
         exc |-> NoExc,
         ret |-> [is_ai_generated |-> Verdict(s, thr),
                  word |-> LikelyWord(s, thr),
                  top_sources |-> TopSources(GetSources(d)),
                  threshold |-> thr,
                  filename |-> fname]]

\* lines 155-189: the return value, or the exception of the else branch
NormalizeOutcome(result, thr, fname) ==
    IF HasContainer(result)
    THEN LET d == result.data[1]
             s == GetScore(d)
         IN  [raised |-> FALSE,
              score |-> s,
              exc |-> NoExc,
              ret |-> [is_ai_generated |-> Verdict(s, thr),
                       word |-> LikelyWord(s, thr),
                       top_sources |-> TopSources(GetSources(d)),
                       threshold |-> thr,
                       filename |-> fname]]
    ELSE [raised |-> TRUE,
          score |-> 0,
          exc |-> HTTPException(500, FORMAT_DETAIL),
          ret |-> NoRet]

--------------------------------------------------------------------------
(* Inputs of the model *)

\* thresholds below 0, in [0, 1] and above 1
Thresholds == (0 - 1)..(Scale + 1)

FileNames ==
    { <<"a", ".", "j", "p", "g">>,
      <<"a", ".", "J", "P", "E", "G">>,
      <<"a", ".", "b", ".", "p", "n", "g">>,
      <<"a", ".", "g", "i", "f">>,
      <<"a", "p", "n", "g">>,
      <<".", "p", "n", "g">>,
      <<"A", ".", "P", "n", "G">>,
      <<"a", ".", "G", "I", "F">>,
      <<"a", ".", "b", "m", "p">>,
      <<"a", ".", "j", "p", "g", ".", "g", "i", "f">>,
      <<"a", ".", "p", "n", "g", "/", "b">>,
      <<"a", ".", "p", "n", "g", "x">>,
      <<"a", ".">> }

\* the largest upload whose encoding is shorter than INLINE_LIMIT
LastInline == ((INLINE_LIMIT \div 4) - 1) * 3

Sizes == {0} \cup ((LastInline - SizeDelta + 1)..(LastInline + SizeDelta))

AssetIds == {"asset-1", "asset-2"}

ErrorStatuses == {403, 500}

\* what requests.post(ASSETS_URL) can bring: no response, an error status,
\* a body without the two keys, a reservation
ReserveResponses ==
    {[net |-> "error", status |-> 0, hasKeys |-> FALSE, assetId |-> ""]}
    \cup {[net |-> "ok", status |-> st, hasKeys |-> FALSE, assetId |-> ""] :
              st \in ErrorStatuses \cup {200}}
    \cup {[net |-> "ok", status |-> 200, hasKeys |-> TRUE, assetId |-> a] :
              a \in AssetIds}

\* what requests.put(uploadUrl) can bring
TransferResponses ==
    {[net |-> "error", status |-> 0]}
    \cup {[net |-> "ok", status |-> st] : st \in ErrorStatuses \cup {200}}

Labels == <<"a", "b", "c", "d", "e", "f">>

\* a possible_sources mapping whose i-th key is Labels[i], with weights w
SourcesOf(w) == [i \in 1..Len(w) |-> [label |-> Labels[i], weight |-> w[i]]]

\* every mapping of at most MaxSources keys with weights in 0..MaxWeight
AllSources ==
    {SourcesOf(w) : w \in UNION {[1..k -> 0..MaxWeight] : k \in 0..MaxSources}}

\* the mappings of the handler's runs: one with a tie across the cut
FlowSources == {SourcesOf(<<1, 2, 2, 1>>)}

EntriesOver(srcs) ==
    {[hasScore |-> FALSE, score |-> 0, hasSources |-> FALSE, sources |-> <<>>]}
    \cup {[hasScore |-> TRUE, score |-> s, hasSources |-> FALSE, sources |-> <<>>] :
              s \in 0..Scale}
    \cup {[hasScore |-> FALSE, score |-> 0, hasSources |-> TRUE, sources |-> m] :
              m \in srcs}
    \cup {[hasScore |-> TRUE, score |-> s, hasSources |-> TRUE, sources |-> m] :
              s \in 0..Scale, m \in srcs}

\* response.json() of the scoring request: no 'data', an empty 'data', or
\* a 'data' whose first entry is d
ResultsOver(srcs) ==
    {[hasData |-> FALSE, data |-> <<>>], [hasData |-> TRUE, data |-> <<>>]}
    \cup {[hasData |-> TRUE, data |-> <<d>>] : d \in EntriesOver(srcs)}

\* what requests.post(INVOKE_URL) can bring: no response, an error status,
\* a body that is not JSON, a JSON body
ScoreResponses ==
    {[net |-> "error", status |-> 0, json |-> FALSE, result |-> NoResult]}
    \cup {[net |-> "ok", status |-> st, json |-> FALSE, result |-> NoResult] :
              st \in ErrorStatuses \cup {200}}
    \cup {[net |-> "ok", status |-> 200, json |-> TRUE, result |-> r] :
              r \in ResultsOver(FlowSources)}

\* a status check that never raises
RaiseForStatusNever(st) == FALSE

\* Response.raise_for_status(): raises for 4xx and 5xx
RaiseForStatus(st) == 400 <= st /\ st < 600

--------------------------------------------------------------------------
(* The handler *)

\* the locals of a call that has not started
Cleared ==
    /\ ext = <<>>
    /\ mime = ""
    /\ b64len = 0
    /\ tmpExists = FALSE
    /\ strategy = "none"
    /\ assetId = ""
    /\ payload = NoPayload
    /\ headers = NoHeaders
    /\ calls = <<>>
    /\ resp = NoResult
    /\ score = 0
    /\ exc = NoExc
    /\ cause = "none"
    /\ ret = NoRet
    /\ reply = NoReply

\* the server waits for a request
Init ==
    /\ pc = "idle"
    /\ threshold = 0
    /\ filename = <<>>
    /\ size = 0
    /\ apiKeySet = FALSE
    /\ Cleared
    /\ prev = NoPrev

\* lines 71-78: a request enters the handler with its file and threshold;
\* the environment holds the API key or not
Receive ==
    /\ pc = "idle"
    /\ threshold' \in Thresholds
    /\ filename' \in FileNames
    /\ size' \in Sizes
    /\ apiKeySet' \in BOOLEAN
    /\ pc' = "validate"
    /\ UNCHANGED <<ext, mime, b64len, tmpExists, strategy, assetId, payload,
                   headers, calls, resp, score, exc, cause, ret, reply, prev>>

\* the lower bound forgotten
ThresholdOkUpperOnly(t) == t <= Scale

\* line 81: 0 <= threshold <= 1
ThresholdOk(t) == 0 <= t /\ t <= Scale

\* line 89: ext in ['.jpg', '.jpeg', '.png']
ExtOk(e) == e \in ALLOWED_EXT

\* lines 80-93: the two validations, each raising HTTPException(400)
Validate ==
    /\ pc = "validate"
    /\ IF ~ThresholdOk(threshold)
       THEN /\ exc' = HTTPException(400, THRESHOLD_DETAIL)
            /\ cause' = "validation"
            /\ pc' = "except"
            /\ ext' = ext
       ELSE /\ ext' = Lower(SplitExt(filename))
            /\ IF ~ExtOk(ext')
               THEN /\ exc' = HTTPException(400, FILETYPE_DETAIL)
                    /\ cause' = "validation"
                    /\ pc' = "except"
               ELSE /\ pc' = "save"
                    /\ UNCHANGED <<exc, cause>>
    /\ UNCHANGED <<threshold, filename, size, apiKeySet, mime, b64len, tmpExists,
                   strategy, assetId, payload, headers, calls, resp, score,
                   ret, reply, prev>>

\* lines 96-100: the temporary file is created (delete=False), then the
\* upload is read and written into it; either can raise, and the with
\* block only closes the file
SaveTemp ==
    /\ pc = "save"
    /\ tmpExists' = TRUE
    /\ \E io \in {"ok", "read", "write"} :
          IF io = "ok"
          THEN /\ pc' = "encode"
               /\ UNCHANGED <<exc, cause>>
          ELSE /\ exc' = OtherError("OSError", io)
               /\ cause' = "io"
               /\ pc' = "except"
    /\ UNCHANGED <<threshold, filename, size, apiKeySet, ext, mime, b64len,
                   strategy, assetId, payload, headers, calls, resp, score,
                   ret, reply, prev>>

\* lines 103-122: the MIME type, the encoding, the API key check
Encode ==
    /\ pc = "encode"
    /\ mime' = MimeType(ext)
    /\ b64len' = B64Len(size)
    /\ IF ~apiKeySet
       THEN /\ exc' = HTTPException(500, APIKEY_DETAIL)
            /\ cause' = "config"
            /\ pc' = "finally"
       ELSE /\ pc' = "select"
            /\ UNCHANGED <<exc, cause>>
    /\ UNCHANGED <<threshold, filename, size, apiKeySet, ext, tmpExists,
                   strategy, assetId, payload, headers, calls, resp, score,
                   ret, reply, prev>>

\* <= in place of <
IsInlineLe(n) == n <= INLINE_LIMIT

\* line 124: len(image_b64) < 180_000
IsInline(n) == n < INLINE_LIMIT

\* lines 124-135: the branch; the inline branch builds the request
SelectStrategy ==
    /\ pc = "select"
    /\ IF IsInline(b64len)
       THEN /\ strategy' = "inline"
            /\ payload' = [scheme |-> "base64", mime |-> mime, data |-> b64len]
            /\ headers' = [assetRef |-> "", auth |-> TRUE]
            /\ pc' = "score"
       ELSE /\ strategy' = "asset"
            /\ pc' = "reserve"
            /\ UNCHANGED <<payload, headers>>
    /\ UNCHANGED <<threshold, filename, size, apiKeySet, ext, mime, b64len,
                   tmpExists, assetId, calls, resp, score, exc, cause, ret,
                   reply, prev>>

\* lines 49-53 of upload_asset: the reservation
Reserve ==
    /\ pc = "reserve"
    /\ \E r \in ReserveResponses :
          /\ calls' = Append(calls, [req |-> "reserve", mime |-> mime, net |-> r.net,
                                    status |-> r.status, good |-> r.hasKeys])
          /\ IF r.net # "ok"
             THEN /\ exc' = ConnectionError(ASSETS_URL)
                  /\ cause' = "upload"
                  /\ pc' = "finally"
                  /\ UNCHANGED assetId
             ELSE IF RaiseForStatus(r.status)
             THEN /\ exc' = HTTPError(r.status, ASSETS_URL)
                  /\ cause' = "upload"
                  /\ pc' = "finally"
                  /\ UNCHANGED assetId
             ELSE IF ~r.hasKeys
             THEN /\ exc' = OtherError("KeyError", "uploadUrl")
                  /\ cause' = "upload"
                  /\ pc' = "finally"
                  /\ UNCHANGED assetId
             ELSE /\ assetId' = r.assetId
                  /\ pc' = "transfer"
                  /\ UNCHANGED <<exc, cause>>
    /\ UNCHANGED <<threshold, filename, size, apiKeySet, ext, mime, b64len,
                   tmpExists, strategy, payload, headers, resp, score, ret,
                   reply, prev>>

\* lines 55-69 of upload_asset, then lines 137-144: the transfer, and the
\* request that names the asset
Transfer ==
    /\ pc = "transfer"
    /\ \E r \in TransferResponses :
          /\ calls' = Append(calls, [req |-> "transfer", mime |-> mime, net |-> r.net,
                                    status |-> r.status, good |-> r.net = "ok"])
          /\ IF r.net # "ok"
             THEN /\ exc' = ConnectionError(PRESIGNED_URL)
                  /\ cause' = "upload"
                  /\ pc' = "finally"
                  /\ UNCHANGED <<payload, headers>>
             ELSE IF RaiseForStatus(r.status)
             THEN /\ exc' = HTTPError(r.status, PRESIGNED_URL)
                  /\ cause' = "upload"
                  /\ pc' = "finally"
                  /\ UNCHANGED <<payload, headers>>
             ELSE /\ payload' = [scheme |-> "asset_id", mime |-> mime, data |-> assetId]
                  /\ headers' = [assetRef |-> assetId, auth |-> TRUE]
                  /\ pc' = "score"
                  /\ UNCHANGED <<exc, cause>>
    /\ UNCHANGED <<threshold, filename, size, apiKeySet, ext, mime, b64len,
                   tmpExists, strategy, assetId, resp, score, ret, reply, prev>>

\* a scoring request that is sent again when no response came
ScoreRetried ==
    /\ pc = "score"
    /\ \E r \in ScoreResponses :
          /\ calls' = Append(calls, [req |-> "score", mime |-> payload.mime, net |-> r.net,
                                    status |-> r.status, good |-> r.json])
          /\ IF r.net # "ok" /\ Len(calls) < 4
             THEN /\ pc' = "score"
                  /\ UNCHANGED <<resp, exc, cause>>
             ELSE IF r.net # "ok"
             THEN /\ exc' = ConnectionError(INVOKE_URL)
                  /\ cause' = "transport"
                  /\ pc' = "finally"
                  /\ UNCHANGED resp
             ELSE IF RaiseForStatus(r.status)
             THEN /\ exc' = HTTPError(r.status, INVOKE_URL)
                  /\ cause' = "rejection"
                  /\ pc' = "finally"
                  /\ UNCHANGED resp
             ELSE IF ~r.json
             THEN /\ exc' = OtherError("JSONDecodeError", "body")
                  /\ cause' = "schema"
                  /\ pc' = "finally"
                  /\ UNCHANGED resp
             ELSE /\ resp' = r.result
                  /\ pc' = "normalize"
                  /\ UNCHANGED <<exc, cause>>
    /\ UNCHANGED <<threshold, filename, size, apiKeySet, ext, mime, b64len,
                   tmpExists, strategy, assetId, payload, headers, score, ret,
                   reply, prev>>

\* lines 147-152: the scoring request
Score ==
    /\ pc = "score"
    /\ \E r \in ScoreResponses :
          /\ calls' = Append(calls, [req |-> "score", mime |-> payload.mime, net |-> r.net,
                                    status |-> r.status, good |-> r.json])
          /\ IF r.net # "ok"
             THEN /\ exc' = ConnectionError(INVOKE_URL)
                  /\ cause' = "transport"
                  /\ pc' = "finally"
                  /\ UNCHANGED resp
             ELSE IF RaiseForStatus(r.status)
             THEN /\ exc' = HTTPError(r.status, INVOKE_URL)
                  /\ cause' = "rejection"
                  /\ pc' = "finally"
                  /\ UNCHANGED resp
             ELSE IF ~r.json
             THEN /\ exc' = OtherError("JSONDecodeError", "body")
                  /\ cause' = "schema"
                  /\ pc' = "finally"
                  /\ UNCHANGED resp
             ELSE /\ resp' = r.result
                  /\ pc' = "normalize"
                  /\ UNCHANGED <<exc, cause>>
    /\ UNCHANGED <<threshold, filename, size, apiKeySet, ext, mime, b64len,
                   tmpExists, strategy, assetId, payload, headers, score, ret,
                   reply, prev>>

\* lines 155-189
Normalize ==
    /\ pc = "normalize"
    /\ LET o == NormalizeOutcome(resp, threshold, filename)
       IN  /\ score' = o.score
           /\ ret' = o.ret
           /\ exc' = o.exc
           /\ cause' = IF o.raised THEN "schema" ELSE cause
    /\ pc' = "finally"
    /\ UNCHANGED <<threshold, filename, size, apiKeySet, ext, mime, b64len,
                   tmpExists, strategy, assetId, payload, headers, calls, resp,
                   reply, prev>>

\* lines 191-195: the finally clause of the inner try
Finally ==
    /\ pc = "finally"
    /\ tmpExists' = FALSE
    /\ pc' = IF exc.type # "none" THEN "except" ELSE "return"
    /\ UNCHANGED <<threshold, filename, size, apiKeySet, ext, mime, b64len,
                   strategy, assetId, payload, headers, calls, resp, score,
                   exc, cause, ret, reply, prev>>

\* lines 197-199: except Exception as e: raise HTTPException(500, str(e))
OuterExcept ==
    /\ pc = "except"
    /\ reply' = [kind |-> "error", status |-> 500, detail |-> Str(exc), body |-> NoRet]
    /\ pc' = "done"
    /\ UNCHANGED <<threshold, filename, size, apiKeySet, ext, mime, b64len,
                   tmpExists, strategy, assetId, payload, headers, calls, resp,
                   score, exc, cause, ret, prev>>

\* lines 174-184: the return value reaches the caller
Return ==
    /\ pc = "return"
    /\ reply' = [kind |-> "verdict", status |-> 200, detail |-> NoDetail, body |-> ret]
    /\ pc' = "done"
    /\ UNCHANGED <<threshold, filename, size, apiKeySet, ext, mime, b64len,
                   tmpExists, strategy, assetId, payload, headers, calls, resp,
                   score, exc, cause, ret, prev>>

\* the call is over: its locals die, the server waits for the next request
NextRequest ==
    /\ pc = "done"
    /\ prev' = [cause |-> cause, kind |-> reply.kind, status |-> reply.status]
    /\ pc' = "idle"
    /\ threshold' = 0
    /\ filename' = <<>>
    /\ size' = 0
    /\ apiKeySet' = FALSE
    /\ ext' = <<>>
    /\ mime' = ""
    /\ b64len' = 0
    /\ tmpExists' = FALSE
    /\ strategy' = "none"
    /\ assetId' = ""
    /\ payload' = NoPayload
    /\ headers' = NoHeaders
    /\ calls' = <<>>
    /\ resp' = NoResult
    /\ score' = 0
    /\ exc' = NoExc
    /\ cause' = "none"
    /\ ret' = NoRet
    /\ reply' = NoReply

Next ==
    \/ Receive
    \/ Validate
    \/ SaveTemp
    \/ Encode
    \/ SelectStrategy
    \/ Reserve
    \/ Transfer
    \/ Score
    \/ Normalize
    \/ Finally
    \/ OuterExcept
    \/ Return
    \/ NextRequest

Spec == Init /\ [][Next]_vars

--------------------------------------------------------------------------
(* The Result Normalizer on every response: the handler stands at line 155 *)
(* of an inline call, with any result the vendor can have sent.            *)

InitRank ==
    /\ pc = "normalize"
    /\ threshold \in 0..Scale
    /\ filename = <<"a", ".", "j", "p", "g">>
    /\ size = 0
    /\ apiKeySet = TRUE
    /\ ext = EXT_JPG
    /\ mime = MimeType(EXT_JPG)
    /\ b64len = B64Len(0)
    /\ tmpExists = TRUE
    /\ strategy = "inline"
    /\ assetId = ""
    /\ payload = [scheme |-> "base64", mime |-> MimeType(EXT_JPG), data |-> B64Len(0)]
    /\ headers = [assetRef |-> "", auth |-> TRUE]
    /\ calls = <<[req |-> "score", mime |-> MimeType(EXT_JPG), net |-> "ok",
                 status |-> 200, good |-> TRUE]>>
    /\ resp \in ResultsOver(AllSources)
    /\ score = 0
    /\ exc = NoExc
    /\ cause = "none"
    /\ ret = NoRet
    /\ reply = NoReply
    /\ prev = NoPrev

NextRank ==
    \/ Normalize
    \/ Finally
    \/ OuterExcept
    \/ Return

SpecRank == InitRank /\ [][NextRank]_vars

--------------------------------------------------------------------------
(* Properties *)

\* the request of this call violates one of the two input constraints
InvalidInput ==
    \/ threshold < 0
    \/ threshold > Scale
    \/ Lower(SplitExt(filename)) \notin {EXT_JPG, EXT_JPEG, EXT_PNG}

\* a logged vendor request that brought no usable answer
RequestFailed(c) == c.net # "ok" \/ c.status >= 400 \/ ~c.good

Requests(kind) == {i \in 1..Len(calls) : calls[i].req = kind}

\* C1: a call whose threshold is outside [0,1] or whose extension is not in
\* the allow-list never gets past validation: it issues no vendor request
\* (reserve, transfer, score) at any point, and it ends in the error that
\* the validation raised.
C1_NoNetworkOnInvalid ==
    (pc # "idle" /\ InvalidInput) =>
        /\ calls = <<>>
        /\ pc \in {"validate", "except", "done"}
        /\ ~tmpExists
        /\ pc = "done" =>
              /\ cause = "validation"
              /\ exc.type = "HTTPException"
              /\ exc.status = 400
              /\ reply.kind = "error"

C1_Witness ==
    /\ pc = "done"
    /\ threshold > Scale
    /\ Lower(SplitExt(filename)) = EXT_PNG
    /\ reply.kind = "error"
    /\ calls = <<>>

\* C2: a rejected threshold or extension reaches the caller as HTTP 400
\* whose detail names the violated constraint; the outer except clause
\* leaves the status of the validation error alone.
C2_ValidationIs400 ==
    (pc = "done" /\ cause = "validation") =>
        /\ reply.kind = "error"
        /\ reply.status = 400
        /\ reply.detail.text =
              IF threshold < 0 \/ threshold > Scale
              THEN THRESHOLD_DETAIL ELSE FILETYPE_DETAIL

\* the state part of C3
C3_Shape ==
    /\ strategy \in {"none", "inline", "asset"}
    /\ strategy = "none" <=> pc \in {"idle", "validate", "save", "encode", "select"}
                              \/ (pc \in {"finally", "except", "done"} /\ calls = <<>>
                                  /\ cause \in {"validation", "io", "config"})
    /\ strategy = "inline" <=> (strategy # "none" /\ 4 * ((size + 2) \div 3) < 180000)
    /\ strategy = "asset" <=> (strategy # "none" /\ 4 * ((size + 2) \div 3) >= 180000)
    /\ strategy = "inline" =>
          /\ Requests("reserve") = {} /\ Requests("transfer") = {}
          /\ payload = [scheme |-> "base64", mime |-> mime, data |-> b64len]
          /\ headers.assetRef = ""
    /\ (strategy = "asset" /\ Requests("score") # {}) =>
          /\ Cardinality(Requests("reserve")) = 1
          /\ Cardinality(Requests("transfer")) = 1
          /\ assetId \in AssetIds
          /\ payload = [scheme |-> "asset_id", mime |-> mime, data |-> assetId]
          /\ headers.assetRef = assetId

\* C3: the strategy is decided once, from the encoded length alone: below
\* 180,000 the request is inline (a base64 data URI, no upload), at 180,000
\* and above it goes through upload_asset and names the asset id in the body
\* and in the NVCF-INPUT-ASSET-REFERENCES header; once decided, the strategy
\* and the request built from it do not change until the call is over.
C3_StrategyBySize ==
    /\ []C3_Shape
    /\ [][(strategy # "none" /\ pc # "done") => strategy' = strategy]_vars
    /\ [][(pc \in {"normalize", "finally", "except", "return"}) =>
              (payload' = payload /\ headers' = headers)]_vars

C3_Witness ==
    /\ pc = "done"
    /\ b64len = INLINE_LIMIT
    /\ strategy = "asset"
    /\ reply.kind = "verdict"

\* C4: a failed reserve or transfer request is the last vendor request of
\* its call (after a failed reserve no transfer, after either no scoring
\* request), and the call ends in an error.
C4_NoScoringAfterFailedUpload ==
    \A i \in 1..Len(calls) :
        (calls[i].req \in {"reserve", "transfer"} /\ RequestFailed(calls[i])) =>
            /\ i = Len(calls)
            /\ Requests("score") = {}
            /\ calls[i].req = "reserve" => Requests("transfer") = {}
            /\ pc \in {"finally", "except", "done"}
            /\ exc.type # "none"
            /\ pc = "done" => reply.kind = "error"

C4_Witness ==
    /\ pc = "done"
    /\ Len(calls) = 2
    /\ calls[2].req = "transfer"
    /\ calls[2].status = 500
    /\ reply.kind = "error"

\* the five failure kinds of the error taxonomy
FailureKinds == {"validation", "upload", "transport", "rejection", "schema"}

\* C5: the five kinds of failure reach the caller as kinds that differ from
\* one another (the status the caller receives tells them apart), and a
\* failing call never ends in a verdict.
C5_DistinctKinds ==
    /\ (pc = "done" /\ cause # "none") => reply.kind = "error"
    /\ (pc = "done" /\ cause \in FailureKinds /\ prev.cause \in FailureKinds
           /\ prev.cause # cause) =>
          reply.status # prev.status

\* C6: the temporary file of a call is gone when the call is over, on
\* every path: a verdict, a failed read or write of the upload, a missing
\* API key, a failed upload or scoring request, a malformed response.
C6_TempReleased == pc = "done" => ~tmpExists

\* the scoring request of this call was answered with a JSON body
ScoredJson ==
    \E i \in Requests("score") :
        calls[i].net = "ok" /\ calls[i].status = 200 /\ calls[i].good

\* C7: a verdict flags the image exactly when the vendor's score is
\* strictly greater than the threshold of the request (equal: not flagged),
\* and the word of the message agrees with the flag.
C7_StrictVerdict ==
    (pc = "done" /\ reply.kind = "verdict") =>
        LET d == resp.data[1]
            s == IF d.hasScore THEN d.score ELSE 0
        IN  /\ ScoredJson
            /\ reply.status = 200
            /\ reply.body.threshold = threshold
            /\ reply.body.is_ai_generated <=> (s > threshold)
            /\ s = threshold => ~reply.body.is_ai_generated
            /\ reply.body.word \in {"likely", "unlikely"}
            /\ reply.body.word = "likely" <=> reply.body.is_ai_generated

C7_Witness ==
    /\ pc = "done"
    /\ reply.kind = "verdict"
    /\ resp.data[1].hasScore
    /\ resp.data[1].score = threshold
    /\ threshold > 0
    /\ ~reply.body.is_ai_generated
    /\ reply.body.word = "unlikely"

\* C8: a scoring response without 'data', or with an empty 'data', fails
\* the call with the schema error (HTTPException 500, "Invalid response
\* format from NVIDIA API"); no verdict is built or returned.
C8_MissingContainerIsError ==
    (ScoredJson /\ (~resp.hasData \/ resp.data = <<>>)
        /\ pc \in {"finally", "except", "return", "done"}) =>
        /\ exc = [type |-> "HTTPException", status |-> 500, detail |-> FORMAT_DETAIL]
        /\ ret = NoRet
        /\ pc # "return"
        /\ pc = "done" =>
              /\ reply.kind = "error"
              /\ reply.status = 500
              /\ reply.detail = [code |-> 500, text |-> FORMAT_DETAIL]
              /\ reply.body = NoRet

C8_Witness ==
    /\ pc = "done"
    /\ ScoredJson
    /\ resp.hasData
    /\ resp.data = <<>>
    /\ reply.kind = "error"

\* C9: with the container present, a first entry without a score gives a
\* verdict computed from score 0 (not flagged for every positive threshold),
\* and a first entry without a source mapping gives an empty top_sources;
\* neither fails the call.
C9_DefaultsWhenFieldsAbsent ==
    (pc = "done" /\ ScoredJson /\ resp.hasData /\ Len(resp.data) > 0) =>
        /\ ~resp.data[1].hasScore =>
              /\ reply.kind = "verdict"
              /\ score = 0
              /\ threshold > 0 => ~reply.body.is_ai_generated
              /\ reply.body.word = "unlikely"
        /\ ~resp.data[1].hasSources =>
              /\ reply.kind = "verdict"
              /\ reply.body.top_sources = <<>>

C9_Witness ==
    /\ pc = "done"
    /\ ScoredJson
    /\ resp.hasData
    /\ Len(resp.data) > 0
    /\ ~resp.data[1].hasScore
    /\ ~resp.data[1].hasSources
    /\ threshold > 0
    /\ reply.kind = "verdict"
    /\ reply.body.top_sources = <<>>

\* the position of entry e in the mapping m (its keys are distinct)
PosIn(m, e) == CHOOSE j \in 1..Len(m) : m[j] = e

\* C10: top_sources holds min(3, n) entries of the n-entry mapping, each
\* once, by non-increasing weight; no omitted entry outweighs a returned
\* one; returned entries of equal weight keep the mapping's order; and
\* a:0.5, b:0.3, c:0.1, d:0.05 gives exactly a, b, c.
C10_TopSources ==
    (pc = "done" /\ reply.kind = "verdict") =>
        LET d == resp.data[1]
            m == IF d.hasSources THEN d.sources ELSE <<>>
            top == reply.body.top_sources
            kept == {top[i] : i \in 1..Len(top)}
        IN  /\ Len(top) = IF Len(m) < 3 THEN Len(m) ELSE 3
            /\ Cardinality(kept) = Len(top)
            /\ \A e \in kept : \E j \in 1..Len(m) : m[j] = e
            /\ \A i, j \in 1..Len(top) : i < j => top[i].weight >= top[j].weight
            /\ \A e \in kept : \A j \in 1..Len(m) :
                  m[j] \notin kept => e.weight >= m[j].weight
            /\ \A i, j \in 1..Len(top) :
                  (i < j /\ top[i].weight = top[j].weight) =>
                      PosIn(m, top[i]) < PosIn(m, top[j])
            /\ (d.hasSources /\ [k \in 1..Len(m) |-> m[k].weight] = <<3, 2, 1, 0>>) =>
                  [k \in 1..Len(top) |-> top[k].label] = <<"a", "b", "c">>

C10_Witness ==
    /\ pc = "done"
    /\ reply.kind = "verdict"
    /\ resp.data[1].hasSources
    /\ [k \in 1..Len(resp.data[1].sources) |-> resp.data[1].sources[k].weight]
          = <<1, 2, 2, 1>>
    /\ [k \in 1..Len(reply.body.top_sources) |-> reply.body.top_sources[k].label]
          = <<"b", "c", "a">>

\* the upper-case form of the letters of the allow-list
UpperOf(c) ==
    CASE c = "j" -> "J"
      [] c = "p" -> "P"
      [] c = "e" -> "E"
      [] c = "g" -> "G"
      [] c = "n" -> "N"
      [] OTHER -> c

\* name ends in the extension e, in any mix of cases; the extension starts
\* at the last dot of the last path component, and a character that is not
\* a dot stands before it in that component (os.path: a name of leading
\* dots only, such as ".png", has no extension)
EndsWithExt(name, e) ==
    LET d == Len(name) - Len(e) + 1
    IN  /\ d >= 1
        /\ \A k \in 1..Len(e) : name[d + k - 1] \in {e[k], UpperOf(e[k])}
        /\ \E k \in 1..(d - 1) :
              /\ name[k] # "."
              /\ \A j \in k..(d - 1) : name[j] # "/"

\* C11: validation of the extension passes exactly for the names whose
\* final extension is .jpg, .jpeg or .png in any mix of cases, and rejects
\* every other name (no extension, .gif, .bmp, ...) with the file-type
\* error; every vendor request of an accepted call carries image/jpeg for
\* .jpg and .jpeg and image/png for .png.
C11_ExtensionAllowList ==
    LET jpeg == \/ EndsWithExt(filename, <<".", "j", "p", "g">>)
                \/ EndsWithExt(filename, <<".", "j", "p", "e", "g">>)
        png == EndsWithExt(filename, <<".", "p", "n", "g">>)
        want == IF png THEN "image/png" ELSE "image/jpeg"
    IN  (pc \notin {"idle", "validate"} /\ 0 <= threshold /\ threshold <= Scale) =>
            /\ (jpeg \/ png) <=> cause # "validation"
            /\ ~(jpeg \/ png) =>
                  /\ exc = [type |-> "HTTPException", status |-> 400,
                            detail |-> FILETYPE_DETAIL]
                  /\ calls = <<>>
            /\ \A i \in 1..Len(calls) : calls[i].mime = want
            /\ payload.scheme # "none" => payload.mime = want

C11_Witness ==
    /\ pc = "done"
    /\ filename = <<"A", ".", "P", "n", "G">>
    /\ strategy = "asset"
    /\ Len(calls) = 3
    /\ \A i \in 1..3 : calls[i].mime = "image/png"
    /\ reply.kind = "verdict"

\* the kinds of the vendor requests of this call, in the order issued
RequestOrder == [i \in 1..Len(calls) |-> calls[i].req]

\* the requests a strategy issues when none of them fails
FullOrder(st) ==
    CASE st = "inline" -> <<"score">>
      [] st = "asset" -> <<"reserve", "transfer", "score">>
      [] OTHER -> <<>>

\* C12: the vendor requests of a call are the requests of its strategy in
\* their order, each issued once: reserve, transfer, score for an asset
\* upload, score alone for an inline call; the scoring request is issued at
\* most once; a request that failed, and the scoring request whatever came
\* back, is the last request of the call; a call that ends without a
\* failed request has issued them all.
C12_LinearNoRetry ==
    /\ Len(calls) <= Len(FullOrder(strategy))
    /\ RequestOrder = SubSeq(FullOrder(strategy), 1, Len(calls))
    /\ Cardinality(Requests("score")) <= 1
    /\ Cardinality(Requests("reserve")) <= 1
    /\ Cardinality(Requests("transfer")) <= 1
    /\ \A i \in 1..Len(calls) :
          (RequestFailed(calls[i]) \/ calls[i].req = "score") => i = Len(calls)
    /\ \A i \in Requests("score") :
          IF strategy = "asset"
          THEN i = 3 /\ calls[1].req = "reserve" /\ calls[2].req = "transfer"
          ELSE i = 1
    /\ (pc \in {"normalize", "return", "done"} /\ strategy # "none"
           /\ \A i \in 1..Len(calls) : ~RequestFailed(calls[i])) =>
          RequestOrder = FullOrder(strategy)

C12_Witness ==
    /\ pc = "done"
    /\ strategy = "asset"
    /\ RequestOrder = <<"reserve", "transfer", "score">>
    /\ calls[3].net = "error"
    /\ cause = "transport"
    /\ reply.kind = "error"

==========================================================================
